---- MODULE Spec2Model ----
(***************************************************************************)
(* Variable-time double-base scalar multiplication aA + bB                 *)
(* (src/backend/serial/scalar_mul/vartime_double_base.rs): mul and its two *)
(* instrumented copies mul_timed and mul_byz_score.                        *)
(*                                                                         *)
(* The group is scaled down to the cyclic group of order Order, written    *)
(* additively on 0..Order-1; the digit arrays have NafLen positions where  *)
(* the code has 256.  Scalar::non_adjacent_form, the point representations *)
(* and the lookup tables are not part of this source file: they follow     *)
(* sections 3, 4.1, 4.2 and 6 of the specification.                        *)
(***************************************************************************)
EXTENDS Integers, Sequences, FiniteSets, TLC

\* ------------------------------------------------------------------ bounds
\* Order of the (scaled) group; scalars are reduced modulo it.
Order == 199
\* Number of digit positions of an expansion (256 in the code).
NafLen == 10
\* A summed duration of MaxDuration stands for "MaxDuration or more".
MaxDuration == 1

\* --------------------------------------------------------- program constants
\* a.non_adjacent_form(5), b.non_adjacent_form(8)
WindowA_wide == 5 + 1

WindowA == 5
WindowB == 8
\* The basepoint, as an element of the scaled group.
BASEPOINT == 2

Scalars == 0..(Order - 1)
Positions == 0..(NafLen - 1)

\* ------------------------------------------- points and their representations
\* A point is a group element together with the representation that holds it.
Pt(rep, x) == [rep |-> rep, pt |-> x % Order]

\* ProjectivePoint::identity()
identity == Pt("Projective", 0)

\* ProjectivePoint::double() -> CompletedPoint
double(p) == Pt("Completed", 2 * p.pt)

\* CompletedPoint::to_extended(), ProjectivePoint::to_extended() -> EdwardsPoint
to_extended(p) == Pt("Extended", p.pt)

\* CompletedPoint::to_projective() -> ProjectivePoint
to_projective(p) == Pt("Projective", p.pt)

\* &EdwardsPoint + &(Projective|Affine)NielsPoint -> CompletedPoint
add(p, q) == Pt("Completed", p.pt + q.pt)

\* &EdwardsPoint - &(Projective|Affine)NielsPoint -> CompletedPoint
sub(p, q) == Pt("Completed", p.pt + Order - q.pt)

\* EdwardsPoint -> the storage (Niels) form kept in a table
to_storage_form(p) == Pt("Niels", p.pt)

\* ------------------------------------------------------------- NAF encoder
\* Section 4.1, position by position.  The residual carries any pending carry.
\* A digit is emitted at an odd residual only (the parity the section refers
\* to); it is the low w bits, taken negative with a carry of 1 above the
\* window when they exceed 2^(w-1)-1.  The residual is then shifted by one bit.
RECURSIVE RecodeUnguarded(_, _, _)
RecodeUnguarded(residual, w, n) ==
  IF n = 0 THEN <<>>
  ELSE LET low == residual % (2 ^ w)
           neg == low > 2 ^ (w - 1) - 1
           digit == IF neg THEN low - 2 ^ w ELSE low
           carry == IF neg THEN 1 ELSE 0
       IN <<digit>> \o RecodeUnguarded((residual \div 2) + carry, w, n - 1)

RECURSIVE RecodeNoClear(_, _, _)
RecodeNoClear(residual, w, n) ==
  IF n = 0 THEN <<>>
  ELSE LET low == residual % (2 ^ w)
           neg == low > 2 ^ (w - 1) - 1
           odd == residual % 2 = 1
           digit == IF ~odd THEN 0 ELSE IF neg THEN low - 2 ^ w ELSE low
           carry == IF odd /\ neg THEN 1 ELSE 0
       IN <<digit>> \o RecodeNoClear((residual \div 2) + carry, w, n - 1)

RECURSIVE Recode(_, _, _)
Recode(residual, w, n) ==
  IF n = 0 THEN <<>>
  ELSE LET low == residual % (2 ^ w)
           neg == low > 2 ^ (w - 1) - 1
           odd == residual % 2 = 1
           digit == IF ~odd THEN 0 ELSE IF neg THEN low - 2 ^ w ELSE low
           carry == IF odd /\ neg THEN 1 ELSE 0
           rest == IF odd THEN residual - low + carry * (2 ^ w) ELSE residual
       IN <<digit>> \o Recode(rest \div 2, w, n - 1)

\* Scalar::non_adjacent_form(w) -> [i8; 256], indexed from 0
non_adjacent_form(s, w) ==
  LET d == Recode(s, w, NafLen) IN [j \in Positions |-> d[j + 1]]

ZeroNaf == [j \in Positions |-> 0]

\* ------------------------------------------------------------ lookup tables
\* Odd magnitudes 1, 3, ..., 2^(w-1)-1 of a table for window w.
OddMagnitudes(w) == {m \in 1..(2 ^ (w - 1) - 1) : m % 2 = 1}

\* Section 4.2: entry(1) = P, entry(m) = entry(m-2) + double(P).
RECURSIVE TableEntry(_, _)
TableEntry(P, m) ==
  IF m = 1 THEN to_storage_form(P)
  ELSE to_storage_form(add(to_extended(TableEntry(P, m - 2)),
                           to_storage_form(double(to_projective(P)))))

\* NafLookupTable5::<ProjectiveNielsPoint>::from(A): 8 entries
NafLookupTable5_from(P) == [m \in OddMagnitudes(5) |-> TableEntry(P, m)]

\* constants::AFFINE_ODD_MULTIPLES_OF_BASEPOINT: 64 entries
AFFINE_ODD_MULTIPLES_OF_BASEPOINT ==
  [m \in OddMagnitudes(8) |-> Pt("Niels", m * BASEPOINT)]

\* table.select(x)
select(table, x) == table[x]

\* ------------------------------------------------------------------ state
VARIABLES
  a,              \* the scalar a of the call
  A,              \* the point A of the call (an EdwardsPoint)
  b,              \* the scalar b of the call
  enc,            \* one query s.non_adjacent_form(w): [pc, s, w, naf]
  mul,            \* the frame of mul
  mul_timed,      \* the frame of mul_timed
  mul_byz_score   \* the frame of mul_byz_score

vars == <<a, A, b, enc, mul, mul_timed, mul_byz_score>>

\* --------------------------------------------------------------------- mul
\* Frame of mul.  start, iters, doublings, combines and last_combines record
\* what the loop has done; the code keeps no such counters in mul.
MulFrame(pc) ==
  [pc |-> pc, a_naf |-> ZeroNaf, b_naf |-> ZeroNaf, i |-> NafLen - 1,
   r |-> identity, ret |-> Pt("Extended", 0),
   start |-> NafLen - 1, iters |-> 0, doublings |-> 0, combines |-> 0,
   last_combines |-> 0]

\* let mut i = 255; for j in (0..256).rev() { i = j; if .. != 0 { break; } }
RECURSIVE mul_find_start_a_only(_, _, _)
mul_find_start_a_only(a_naf, b_naf, j) ==
  IF a_naf[j] # 0 THEN j
  ELSE IF j = 0 THEN 0
  ELSE mul_find_start_a_only(a_naf, b_naf, j - 1)

RECURSIVE mul_find_start(_, _, _)
mul_find_start(a_naf, b_naf, j) ==
  IF a_naf[j] # 0 \/ b_naf[j] # 0 THEN j
  ELSE IF j = 0 THEN 0
  ELSE mul_find_start(a_naf, b_naf, j - 1)

\* The loop body threads acc = [t, n]: the value t and the number n of
\* add/sub steps applied to it so far in this pass.
\* if a_naf[i] > 0 { t = &t.to_extended() + &table_A.select(a_naf[i]) }
\* else if a_naf[i] < 0 { t = &t.to_extended() - &table_A.select(-a_naf[i]) }
mul_combine_A_no_sub(acc, d, table_A) ==
  IF d > 0 THEN [t |-> add(to_extended(acc.t), select(table_A, d)), n |-> acc.n + 1]
  ELSE IF d < 0 THEN [t |-> add(to_extended(acc.t), select(table_A, -d)), n |-> acc.n + 1]
  ELSE acc

mul_combine_A(acc, d, table_A) ==
  IF d > 0 THEN [t |-> add(to_extended(acc.t), select(table_A, d)), n |-> acc.n + 1]
  ELSE IF d < 0 THEN [t |-> sub(to_extended(acc.t), select(table_A, -d)), n |-> acc.n + 1]
  ELSE acc

\* if b_naf[i] > 0 { t = &t.to_extended() + &table_B.select(b_naf[i]) }
\* else if b_naf[i] < 0 { t = &t.to_extended() - &table_B.select(-b_naf[i]) }
mul_combine_B_once(acc, d, table_B) ==
  IF acc.n > 0 THEN acc
  ELSE IF d > 0 THEN [t |-> add(to_extended(acc.t), select(table_B, d)), n |-> acc.n + 1]
  ELSE IF d < 0 THEN [t |-> sub(to_extended(acc.t), select(table_B, -d)), n |-> acc.n + 1]
  ELSE acc

mul_combine_B(acc, d, table_B) ==
  IF d > 0 THEN [t |-> add(to_extended(acc.t), select(table_B, d)), n |-> acc.n + 1]
  ELSE IF d < 0 THEN [t |-> sub(to_extended(acc.t), select(table_B, -d)), n |-> acc.n + 1]
  ELSE acc

\* One pass of the loop body of mul (lines 41-60).
mul_iteration_skipped(fr) ==
  LET s0 == [t |-> double(fr.r), n |-> 0]
      s1 == mul_combine_A(s0, fr.a_naf[fr.i], NafLookupTable5_from(A))
      s2 == mul_combine_B(s1, fr.b_naf[fr.i], AFFINE_ODD_MULTIPLES_OF_BASEPOINT)
  IN IF fr.i = 0 /\ fr.a_naf[0] = 0 /\ fr.b_naf[0] = 0 /\ fr.iters = 0
     THEN [fr EXCEPT !.pc = "ret"]
     ELSE [fr EXCEPT !.r = to_projective(s2.t),
                     !.pc = IF fr.i = 0 THEN "ret" ELSE "loop",
                     !.i = IF fr.i = 0 THEN 0 ELSE fr.i - 1,
                     !.iters = @ + 1,
                     !.doublings = @ + 1,
                     !.combines = @ + s2.n,
                     !.last_combines = s2.n]

mul_iteration(fr) ==
  LET s0 == [t |-> double(fr.r), n |-> 0]
      s1 == mul_combine_A(s0, fr.a_naf[fr.i], NafLookupTable5_from(A))
      s2 == mul_combine_B(s1, fr.b_naf[fr.i], AFFINE_ODD_MULTIPLES_OF_BASEPOINT)
  IN [fr EXCEPT !.r = to_projective(s2.t),
                !.pc = IF fr.i = 0 THEN "ret" ELSE "loop",
                !.i = IF fr.i = 0 THEN 0 ELSE fr.i - 1,
                !.iters = @ + 1,
                !.doublings = @ + 1,
                !.combines = @ + s2.n,
                !.last_combines = s2.n]

\* Lines 24-39: the expansions, the starting index, the table, r = identity.
MulStart ==
  /\ mul.pc = "start"
  /\ LET an == non_adjacent_form(a, WindowA)
         bn == non_adjacent_form(b, WindowB)
         s  == mul_find_start(an, bn, NafLen - 1)
     IN mul' = [mul EXCEPT !.pc = "loop", !.a_naf = an, !.b_naf = bn,
                           !.i = s, !.start = s,
                           !.r = identity]
  /\ UNCHANGED <<a, A, b, enc, mul_timed, mul_byz_score>>

\* Lines 40-61.
MulLoop ==
  /\ mul.pc = "loop"
  /\ mul' = mul_iteration(mul)
  /\ UNCHANGED <<a, A, b, enc, mul_timed, mul_byz_score>>

\* Line 63: r.to_extended()
MulReturn ==
  /\ mul.pc = "ret"
  /\ mul' = [mul EXCEPT !.pc = "done", !.ret = to_extended(mul.r)]
  /\ UNCHANGED <<a, A, b, enc, mul_timed, mul_byz_score>>

\* ----------------------------------------------------------- mul_byz_score
ByzFrame(pc) ==
  [pc |-> pc, a_naf |-> ZeroNaf, b_naf |-> ZeroNaf, i |-> NafLen - 1,
   r |-> identity, ret |-> Pt("Extended", 0), score |-> 0,
   byzantine_counter |-> 0, byzantine_inefficiency_counter |-> 0,
   start |-> NafLen - 1, combines |-> 0]

\* Lines 144-150.
RECURSIVE byz_find_start(_, _, _)
byz_find_start(a_naf, b_naf, j) ==
  IF a_naf[j] # 0 \/ b_naf[j] # 0 THEN j
  ELSE IF j = 0 THEN 0
  ELSE byz_find_start(a_naf, b_naf, j - 1)

\* Lines 162-168; acc = [t, n, skipped]: skipped counts the else branches.
byz_combine_A(acc, d, table_A) ==
  IF d > 0 THEN [acc EXCEPT !.t = add(to_extended(acc.t), select(table_A, d)), !.n = @ + 1]
  ELSE IF d < 0 THEN [acc EXCEPT !.t = sub(to_extended(acc.t), select(table_A, -d)), !.n = @ + 1]
  ELSE [acc EXCEPT !.skipped = @ + 1]

\* Lines 170-176.
byz_combine_B_uncounted(acc, d, table_B) ==
  IF d > 0 THEN [acc EXCEPT !.t = add(to_extended(acc.t), select(table_B, d)), !.n = @ + 1]
  ELSE IF d < 0 THEN [acc EXCEPT !.t = sub(to_extended(acc.t), select(table_B, -d)), !.n = @ + 1]
  ELSE acc

byz_combine_B_skips_negative(acc, d, table_B) ==
  IF d > 0 THEN [acc EXCEPT !.t = add(to_extended(acc.t), select(table_B, d)), !.n = @ + 1]
  ELSE [acc EXCEPT !.skipped = @ + 1]

byz_combine_B(acc, d, table_B) ==
  IF d > 0 THEN [acc EXCEPT !.t = add(to_extended(acc.t), select(table_B, d)), !.n = @ + 1]
  ELSE IF d < 0 THEN [acc EXCEPT !.t = sub(to_extended(acc.t), select(table_B, -d)), !.n = @ + 1]
  ELSE [acc EXCEPT !.skipped = @ + 1]

\* One pass of the loop body of mul_byz_score (lines 159-183).
byz_iteration(fr) ==
  LET s0 == [t |-> double(fr.r), n |-> 0, skipped |-> 0]
      s1 == byz_combine_A(s0, fr.a_naf[fr.i], NafLookupTable5_from(A))
      s2 == byz_combine_B(s1, fr.b_naf[fr.i], AFFINE_ODD_MULTIPLES_OF_BASEPOINT)
  IN [fr EXCEPT !.byzantine_counter = @ + 1,
                !.byzantine_inefficiency_counter = @ + s2.skipped,
                !.r = to_projective(s2.t),
                !.pc = IF fr.i = 0 THEN "ret" ELSE "loop",
                !.i = IF fr.i = 0 THEN 0 ELSE fr.i - 1,
                !.combines = @ + s2.n]

\* let score = 2*byzantine_counter-byzantine_inefficiency_counter;
byz_score_plain(fr) == 2 * fr.byzantine_counter

byz_score(fr) == 2 * fr.byzantine_counter - fr.byzantine_inefficiency_counter

\* Lines 140-157.
ByzStart ==
  /\ mul_byz_score.pc = "start"
  /\ LET an == non_adjacent_form(a, WindowA)
         bn == non_adjacent_form(b, WindowB)
         s  == byz_find_start(an, bn, NafLen - 1)
     IN mul_byz_score' =
          [mul_byz_score EXCEPT !.pc = "loop", !.a_naf = an, !.b_naf = bn,
                                !.i = s, !.start = s,
                                !.r = identity,
                                !.byzantine_counter = 0,
                                !.byzantine_inefficiency_counter = 0]
  /\ UNCHANGED <<a, A, b, enc, mul, mul_timed>>

\* Lines 158-184.
ByzLoop ==
  /\ mul_byz_score.pc = "loop"
  /\ mul_byz_score' = byz_iteration(mul_byz_score)
  /\ UNCHANGED <<a, A, b, enc, mul, mul_timed>>

\* Lines 185-187.
ByzReturn ==
  /\ mul_byz_score.pc = "ret"
  /\ mul_byz_score' = [mul_byz_score EXCEPT !.pc = "done",
                                            !.score = byz_score(mul_byz_score),
                                            !.ret = to_extended(mul_byz_score.r)]
  /\ UNCHANGED <<a, A, b, enc, mul, mul_timed>>

\* ------------------------------------------------- Scalar::non_adjacent_form
EncFrame(pc, s, w) == [pc |-> pc, s |-> s, w |-> w, naf |-> ZeroNaf]

\* One query s.non_adjacent_form(w).
Encode ==
  /\ enc.pc = "start"
  /\ enc' = [enc EXCEPT !.pc = "done", !.naf = non_adjacent_form(enc.s, enc.w)]
  /\ UNCHANGED <<a, A, b, mul, mul_timed, mul_byz_score>>

\* --------------------------------------------------------------- mul_timed
\* table, a_dur and b_dur are the three Durations returned (the code names the
\* last two a and b, shadowing the scalars).
TimedFrame(pc) ==
  [pc |-> pc, a_naf |-> ZeroNaf, b_naf |-> ZeroNaf, i |-> NafLen - 1,
   r |-> identity, ret |-> Pt("Extended", 0),
   table |-> 0, a_dur |-> 0, b_dur |-> 0,
   byzantine_counter |-> 0, byzantine_inefficiency_counter |-> 0]

\* clock.elapsed(): no tick or one tick of the clock.
Elapsed == {0, 1}

\* Duration += clock.elapsed(), up to MaxDuration ("MaxDuration or more").
add_elapsed(d, e) == IF d + e > MaxDuration THEN MaxDuration ELSE d + e

\* Lines 78-84.
RECURSIVE timed_find_start(_, _, _)
timed_find_start(a_naf, b_naf, j) ==
  IF a_naf[j] # 0 \/ b_naf[j] # 0 THEN j
  ELSE IF j = 0 THEN 0
  ELSE timed_find_start(a_naf, b_naf, j - 1)

\* Lines 101-108.
timed_combine_A(acc, d, table_A) ==
  IF d > 0 THEN [acc EXCEPT !.t = add(to_extended(acc.t), select(table_A, d))]
  ELSE IF d < 0 THEN [acc EXCEPT !.t = sub(to_extended(acc.t), select(table_A, -d))]
  ELSE [acc EXCEPT !.skipped = @ + 1]

\* Lines 112-119.
timed_combine_B(acc, d, table_B) ==
  IF d > 0 THEN [acc EXCEPT !.t = add(to_extended(acc.t), select(table_B, d))]
  ELSE IF d < 0 THEN [acc EXCEPT !.t = sub(to_extended(acc.t), select(table_B, -d))]
  ELSE [acc EXCEPT !.skipped = @ + 1]

\* One pass of the loop body of mul_timed (lines 97-127); ea and eb are the
\* two clock readings of the pass.
timed_iteration(fr, ea, eb) ==
  LET s0 == [t |-> double(fr.r), skipped |-> 0]
      s1 == timed_combine_A(s0, fr.a_naf[fr.i], NafLookupTable5_from(A))
      s2 == timed_combine_B(s1, fr.b_naf[fr.i], AFFINE_ODD_MULTIPLES_OF_BASEPOINT)
  IN [fr EXCEPT !.byzantine_counter = @ + 1,
                !.byzantine_inefficiency_counter = @ + s2.skipped,
                !.a_dur = add_elapsed(@, ea),
                !.b_dur = add_elapsed(@, eb),
                !.r = to_projective(s2.t),
                !.pc = IF fr.i = 0 THEN "ret" ELSE "loop",
                !.i = IF fr.i = 0 THEN 0 ELSE fr.i - 1]

\* Lines 72-95.
TimedStart ==
  /\ mul_timed.pc = "start"
  /\ \E e \in Elapsed :
       LET an == non_adjacent_form(a, WindowA)
           bn == non_adjacent_form(b, WindowB)
       IN mul_timed' =
            [mul_timed EXCEPT !.pc = "loop", !.a_naf = an, !.b_naf = bn,
                              !.i = timed_find_start(an, bn, NafLen - 1),
                              !.a_dur = 0, !.b_dur = 0,
                              !.table = e,
                              !.r = identity,
                              !.byzantine_counter = 0,
                              !.byzantine_inefficiency_counter = 0]
  /\ UNCHANGED <<a, A, b, enc, mul, mul_byz_score>>

\* Lines 96-128.
TimedLoop ==
  /\ mul_timed.pc = "loop"
  /\ \E ea \in Elapsed, eb \in Elapsed :
       mul_timed' = timed_iteration(mul_timed, ea, eb)
  /\ UNCHANGED <<a, A, b, enc, mul, mul_byz_score>>

\* Lines 129-131.
TimedReturn ==
  /\ mul_timed.pc = "ret"
  /\ mul_timed' = [mul_timed EXCEPT !.pc = "done", !.ret = to_extended(mul_timed.r)]
  /\ UNCHANGED <<a, A, b, enc, mul, mul_byz_score>>

\* ---------------------------------------------------------- specifications
\* Operand points A: the identity and a point that is not the basepoint.
OperandPoints == {Pt("Extended", 0), Pt("Extended", 1)}
Windows == 2..8

\* One query of the encoder.
InitEncode ==
  /\ \E s \in Scalars, w \in Windows : enc = EncFrame("start", s, w)
  /\ a = 0 /\ b = 0 /\ A = Pt("Extended", 0)
  /\ mul = MulFrame("idle")
  /\ mul_timed = TimedFrame("idle")
  /\ mul_byz_score = ByzFrame("idle")

\* One call of mul.
InitCall ==
  /\ a \in Scalars /\ b \in Scalars /\ A \in OperandPoints
  /\ enc = EncFrame("idle", 0, 2)
  /\ mul = MulFrame("start")
  /\ mul_timed = TimedFrame("idle")
  /\ mul_byz_score = ByzFrame("idle")

Init == InitEncode \/ InitCall

Next ==
  \/ Encode
  \/ MulStart \/ MulLoop \/ MulReturn

Spec == Init /\ [][Next]_vars

\* One call of mul_byz_score.
InitScore ==
  /\ a \in Scalars /\ b \in Scalars /\ A \in OperandPoints
  /\ enc = EncFrame("idle", 0, 2)
  /\ mul = MulFrame("idle")
  /\ mul_timed = TimedFrame("idle")
  /\ mul_byz_score = ByzFrame("start")

NextScore == ByzStart \/ ByzLoop \/ ByzReturn

SpecScore == InitScore /\ [][NextScore]_vars

\* The three functions called side by side on the same (a, A, b).
EqScalars == {0, 1, 31, Order - 2}
EqPoints == {Pt("Extended", 1)}

InitEq ==
  /\ a \in EqScalars /\ b \in EqScalars /\ A \in EqPoints
  /\ enc = EncFrame("idle", 0, 2)
  /\ mul = MulFrame("start")
  /\ mul_timed = TimedFrame("start")
  /\ mul_byz_score = ByzFrame("start")

NextEq ==
  \/ MulStart \/ MulLoop \/ MulReturn
  \/ TimedStart \/ TimedLoop \/ TimedReturn
  \/ ByzStart \/ ByzLoop \/ ByzReturn

SpecEq == InitEq /\ [][NextEq]_vars

\* ------------------------------------------------------------ properties
\* The integer an expansion denotes: the sum of naf[j] * 2^j over positions >= j.
RECURSIVE ValueFrom(_, _)
ValueFrom(naf, j) ==
  IF j > NafLen - 1 THEN 0 ELSE naf[j] + 2 * ValueFrom(naf, j + 1)

Abs(x) == IF x < 0 THEN -x ELSE x

\* k.P by double-and-add over the bits of k, on group elements.
RECURSIVE DoubleAndAdd(_, _)
DoubleAndAdd(k, P) ==
  IF k = 0 THEN 0
  ELSE LET h == DoubleAndAdd(k \div 2, P)
       IN (h + h + (IF k % 2 = 1 THEN P ELSE 0)) % Order

\* The highest position at which either expansion is nonzero, 0 when none is.
HighestNonzero(an, bn) ==
  LET nz == {j \in Positions : an[j] # 0 \/ bn[j] # 0}
  IN IF nz = {} THEN 0 ELSE CHOOSE j \in nz : \A k \in nz : k <= j

\* The (position, operand) pairs at positions 0..top whose digit is zero.
ZeroPairs(an, bn, top) ==
  {<<j, "a">> : j \in {k \in 0..top : an[k] = 0}}
    \cup {<<j, "b">> : j \in {k \in 0..top : bn[k] = 0}}

Started(fr) == fr.pc \in {"loop", "ret", "done"}

\* C3: the digits of s.non_adjacent_form(w) sum, weighted by 2^i over all
\* positions, to s exactly, and s = 0 gives the all-zero sequence.
C3_RoundTrip ==
  enc.pc = "done" =>
    /\ ValueFrom(enc.naf, 0) = enc.s
    /\ (enc.s = 0 => enc.naf = ZeroNaf)

\* A negative low window whose carry lands in a position above every bit of s.
C3_Witness ==
  /\ enc.pc = "done"
  /\ \E j \in Positions : enc.naf[j] = 1 /\ 2 ^ j > enc.s
  /\ \E j \in Positions : enc.naf[j] < 0
  /\ ValueFrom(enc.naf, 0) = enc.s

\* A digit of an expansion for window w: zero, or odd of magnitude <= 2^(w-1)-1.
DigitOk(d, w) == d = 0 \/ (d % 2 = 1 /\ Abs(d) <= 2 ^ (w - 1) - 1)

\* C4: every nonzero digit for window w is odd with magnitude <= 2^(w-1)-1,
\* so mul only ever selects odd entries 1..15 of the 8-entry table of A and
\* odd entries 1..127 of the 64-entry table of B.
C4_DigitsInTables ==
  /\ enc.pc = "done" => \A j \in Positions : DigitOk(enc.naf[j], enc.w)
  /\ Started(mul) =>
       \A j \in Positions : DigitOk(mul.a_naf[j], 5) /\ DigitOk(mul.b_naf[j], 8)
  /\ mul.pc = "ret" =>
       /\ Cardinality(DOMAIN NafLookupTable5_from(A)) = 8
       /\ Cardinality(DOMAIN AFFINE_ODD_MULTIPLES_OF_BASEPOINT) = 64
  /\ mul.pc = "loop" =>
       /\ mul.a_naf[mul.i] # 0 =>
            /\ Abs(mul.a_naf[mul.i]) \in DOMAIN NafLookupTable5_from(A)
            /\ Abs(mul.a_naf[mul.i]) \in {m \in 1..15 : m % 2 = 1}
       /\ mul.b_naf[mul.i] # 0 =>
            /\ Abs(mul.b_naf[mul.i]) \in DOMAIN AFFINE_ODD_MULTIPLES_OF_BASEPOINT
            /\ Abs(mul.b_naf[mul.i]) \in {m \in 1..127 : m % 2 = 1}

\* mul about to select the last entry of each table, once added, once subtracted.
C4_Witness ==
  /\ mul.pc = "loop"
  /\ mul.a_naf[mul.i] = 15
  /\ mul.b_naf[mul.i] = -127

\* C5: no two consecutive positions of an expansion are both nonzero.
C5_NonAdjacent ==
  enc.pc = "done" =>
    \A j \in 0..(NafLen - 2) : ~(enc.naf[j] # 0 /\ enc.naf[j + 1] # 0)

\* Nonzero digits as close as the narrowest window allows.
C5_Witness ==
  /\ enc.pc = "done"
  /\ \E j \in 0..(NafLen - 3) :
       enc.naf[j] # 0 /\ enc.naf[j + 1] = 0 /\ enc.naf[j + 2] # 0

\* C1: mul(a, A, b) returns a.A + b.B as computed by double-and-add over the
\* bits of a and b; a=0,b=0 gives the identity, a=1,b=0 gives A, a=0,b=1 gives
\* the basepoint, a=Order-1,b=0 gives the inverse of A.
C1_MulComputes ==
  mul.pc = "done" =>
    /\ mul.ret = Pt("Extended", DoubleAndAdd(a, A.pt) + DoubleAndAdd(b, BASEPOINT))
    /\ (a = 0 /\ b = 0 => mul.ret = Pt("Extended", 0))
    /\ (a = 1 /\ b = 0 => mul.ret = A)
    /\ (a = 0 /\ b = 1 => mul.ret = Pt("Extended", BASEPOINT))
    /\ (a = Order - 1 /\ b = 0 => (mul.ret.pt + A.pt) % Order = 0)

\* mul has returned the inverse of a point A that is not its own inverse.
C1_Witness ==
  /\ mul.pc = "done"
  /\ a = Order - 1 /\ b = 0
  /\ A.pt # 0
  /\ mul.ret.pt # A.pt
  /\ (mul.ret.pt + A.pt) % Order = 0

\* C6: mul returns after a bounded number of steps: its scan starts the loop
\* at the highest position where a_naf or b_naf is nonzero (0 when none is); i
\* goes down by one per pass, never below 0; the loop makes start + 1 passes,
\* at most NafLen (256 in the code).
C6_Bounds ==
  /\ Started(mul) =>
       /\ mul.start = HighestNonzero(mul.a_naf, mul.b_naf)
       /\ mul.start \in Positions
       /\ mul.iters <= NafLen
  /\ mul.pc = "loop" =>
       /\ mul.i \in 0..mul.start
       /\ mul.i = mul.start - mul.iters
  /\ mul.pc \in {"ret", "done"} =>
       /\ mul.i = 0
       /\ mul.iters = mul.start + 1

\* Every step of mul moves it on: into the loop, one index down while i > 0,
\* out of the loop at i = 0, and from there to its return.
C6_Step ==
  /\ mul.pc = "start" => mul'.pc = "loop" /\ mul'.iters = 0
  /\ mul.pc = "loop" /\ mul.i > 0 =>
       mul'.pc = "loop" /\ mul'.i = mul.i - 1 /\ mul'.iters = mul.iters + 1
  /\ mul.pc = "loop" /\ mul.i = 0 =>
       mul'.pc = "ret" /\ mul'.i = 0 /\ mul'.iters = mul.iters + 1
  /\ mul.pc = "ret" => mul'.pc = "done" /\ mul'.iters = mul.iters

C6_LoopBound == []C6_Bounds /\ [][C6_Step]_mul

\* mul has returned after a loop that the digits of b alone started above 0.
C6_Witness ==
  /\ mul.pc = "done"
  /\ mul.start > 0
  /\ mul.a_naf[mul.start] = 0
  /\ mul.b_naf[mul.start] # 0
  /\ mul.iters = mul.start + 1

\* C7 as stated: for a = b = 0 mul returns the identity and its loop makes no
\* pass at all (no doubling, no combine step).
C7_LoopSkipped ==
  (mul.pc = "done" /\ a = 0 /\ b = 0) =>
    /\ mul.ret = Pt("Extended", 0)
    /\ mul.iters = 0
    /\ mul.doublings = 0
    /\ mul.combines = 0

\* C7 amended: for a = b = 0 mul returns the identity after exactly one pass of
\* its loop, at index 0: one doubling (of the identity) and no combine step.
C7_OnePassAtZero ==
  (mul.pc = "done" /\ a = 0 /\ b = 0) =>
    /\ mul.ret = Pt("Extended", 0)
    /\ mul.start = 0
    /\ mul.iters = 1
    /\ mul.doublings = 1
    /\ mul.combines = 0

\* mul has returned for a = b = 0 and a point A that is not the identity.
C7_Witness ==
  /\ mul.pc = "done"
  /\ a = 0 /\ b = 0
  /\ A.pt # 0
  /\ mul.a_naf = ZeroNaf /\ mul.b_naf = ZeroNaf

\* The position the last pass of the loop of mul worked on.
LastPosition == mul.start - (mul.iters - 1)

\* C10 as stated: every pass of the loop doubles once and applies at most one
\* add-or-subtract against the tables.
C10_AtMostOneCombine ==
  (mul.pc \in {"loop", "ret"} /\ mul.iters > 0) =>
    /\ mul.doublings = mul.iters
    /\ mul.last_combines <= 1

\* C10 amended: every pass of the loop doubles once and applies at most one
\* add-or-subtract against table_A and at most one against table_B, one for
\* each nonzero digit at that position (up to two), before the value is
\* converted back to the doubling form.
C10_OneCombinePerTable ==
  (mul.pc \in {"loop", "ret"} /\ mul.iters > 0) =>
    /\ mul.doublings = mul.iters
    /\ mul.last_combines =
         (IF mul.a_naf[LastPosition] # 0 THEN 1 ELSE 0)
           + (IF mul.b_naf[LastPosition] # 0 THEN 1 ELSE 0)
    /\ mul.last_combines <= 2
    /\ mul.r.rep = "Projective"

\* A pass that combined against both tables, in the middle of a longer loop.
C10_Witness ==
  /\ mul.pc = "loop"
  /\ mul.iters > 1
  /\ mul.last_combines = 2
  /\ mul.a_naf[LastPosition] < 0
  /\ mul.b_naf[LastPosition] > 0

\* C8: the score of mul_byz_score is 2 x (passes of the loop) minus the number
\* of (processed position, operand) pairs with a zero digit, which is the
\* number of combine steps performed; when both digits are nonzero at every
\* processed position it is 2 x (passes).
C8_Score ==
  mul_byz_score.pc = "done" =>
    LET top == HighestNonzero(mul_byz_score.a_naf, mul_byz_score.b_naf)
        zeros == ZeroPairs(mul_byz_score.a_naf, mul_byz_score.b_naf, top)
    IN /\ mul_byz_score.byzantine_counter = top + 1
       /\ mul_byz_score.score = 2 * (top + 1) - Cardinality(zeros)
       /\ mul_byz_score.score = mul_byz_score.combines
       /\ (zeros = {} => mul_byz_score.score = 2 * (top + 1))

\* A returned score with no zero digit at any processed position.
C8_Witness ==
  /\ mul_byz_score.pc = "done"
  /\ ZeroPairs(mul_byz_score.a_naf, mul_byz_score.b_naf,
               HighestNonzero(mul_byz_score.a_naf, mul_byz_score.b_naf)) = {}
  /\ mul_byz_score.a_naf[0] > 1 /\ mul_byz_score.b_naf[0] > 1
  /\ mul_byz_score.score = 2 * mul_byz_score.byzantine_counter

\* C9: for a = b = 0 mul_byz_score starts at index 0, makes exactly one pass
\* with no combine step, returns the identity and a score of 0.
C9_ZeroScalars ==
  (mul_byz_score.pc = "done" /\ a = 0 /\ b = 0) =>
    /\ mul_byz_score.start = 0
    /\ mul_byz_score.byzantine_counter = 1
    /\ mul_byz_score.byzantine_inefficiency_counter = 2
    /\ mul_byz_score.combines = 0
    /\ mul_byz_score.ret = Pt("Extended", 0)
    /\ mul_byz_score.score = 0

\* mul_byz_score has returned for a = b = 0 and a point A that is not the identity.
C9_Witness ==
  /\ mul_byz_score.pc = "done"
  /\ a = 0 /\ b = 0
  /\ A.pt # 0
  /\ mul_byz_score.byzantine_counter = 1

\* C2: mul_timed and mul_byz_score return the point mul returns, and after the
\* same number of passes the three hold the same accumulator r and index i.
C2_SameRun ==
  /\ (mul.pc = "done" /\ mul_timed.pc = "done") => mul_timed.ret = mul.ret
  /\ (mul.pc = "done" /\ mul_byz_score.pc = "done") => mul_byz_score.ret = mul.ret
  /\ (Started(mul) /\ Started(mul_timed)
        /\ mul.iters = mul_timed.byzantine_counter) =>
       /\ mul_timed.r = mul.r
       /\ mul_timed.i = mul.i
       /\ (mul_timed.pc = "loop") = (mul.pc = "loop")
  /\ (Started(mul) /\ Started(mul_byz_score)
        /\ mul.iters = mul_byz_score.byzantine_counter) =>
       /\ mul_byz_score.r = mul.r
       /\ mul_byz_score.i = mul.i
       /\ (mul_byz_score.pc = "loop") = (mul.pc = "loop")

\* All three have returned the same point, with time on every timer, on an
\* input with negative digits in both expansions.
C2_Witness ==
  /\ mul.pc = "done" /\ mul_timed.pc = "done" /\ mul_byz_score.pc = "done"
  /\ mul_timed.ret = mul.ret /\ mul_byz_score.ret = mul.ret
  /\ mul.ret.pt # 0
  /\ \E j \in Positions : mul.a_naf[j] < 0
  /\ \E j \in Positions : mul.b_naf[j] < 0
  /\ mul_timed.table > 0 /\ mul_timed.a_dur > 0 /\ mul_timed.b_dur > 0
  /\ mul_byz_score.score > 0

====
